---- MODULE Spec2Model ----
(***************************************************************************)
(* Consultation lifecycle of the professor consultation scheduler:         *)
(* the Consultation row, its guarded model methods, the ConsultationService*)
(* operations, the REST actions of ConsultationViewSet, the frontend       *)
(* professor/student actions and the cancellation / reschedule request     *)
(* records.  Time is counted in whole hours since an arbitrary epoch.      *)
(***************************************************************************)
EXTENDS Integers, Sequences, FiniteSets, TLC

\* ------------------------------------------------------------------------
\* Bounds of the model
\* ------------------------------------------------------------------------
MaxTime == 2
MaxConsultations == 4
MaxSeats == 2

\* ------------------------------------------------------------------------
\* Program constants
\* ------------------------------------------------------------------------
HoursPerDay == 24
DefaultNoticeHours == 4
MinDuration == 15
MaxDuration == 240
MinRating == 1
MaxRating == 5

\* null=True columns: a null DateTimeField, a null rating, an absent value
NoTime == -1
NoRating == 0
NoValue == -1
None == "None"

\* members of class ConsultationStatus
ConsultationStatus ==
    {"PENDING", "CONFIRMED", "CANCELLED", "COMPLETED", "NO_SHOW", "RESCHEDULED"}

\* members of class RequestStatus
RequestStatus == {"REQUESTED", "APPROVED", "REJECTED", "CANCELLED"}

\* fields declared on class ProfessorProfile
ProfileFields ==
    {"user", "title", "department", "office_location",
     "consultation_duration_default", "available_days",
     "max_advance_booking_days", "buffer_time_between_consultations",
     "status", "average_rating", "total_reviews", "created_at", "updated_at"}

\* ------------------------------------------------------------------------
\* Inputs of the requests
\* ------------------------------------------------------------------------
Dates == {0, 1}
Times == {5}
Durations == {30}
Reasons == {"", "sick"}
Ratings == {1, 5}
Feedbacks == {""}
EventIds == {"e1", "e2"}
CalendarOutcomes == EventIds \cup {"none", "raise"}
NotifyOutcomes == {"sent", "raise"}
NoticeSettings == {0, 4}
NewTimes == {6}
NewDurations == {NoValue, 5, 60}
RecordReasons == {None, "sick"}
Processors == {"admin"}
Notes == {"seen"}

\* Slot booking: one slot, its professor and the students who book it
DefaultMaxStudents == 1
SlotStudents == {"s1", "s2", "s3"}
SlotProfessor == "prof"
SlotUsers == SlotStudents \cup {SlotProfessor}

\* variant: the reject branch storing an empty reason
StudentRejected_Empty == ""

StudentRejected == "Student rejected reschedule proposal."

VARIABLES
    now,             \* timezone.now(), in hours
    con,             \* the persisted Consultation row
    profile,         \* the professor's ProfessorProfile row, or NoProfile
    notice_setting,  \* cancellation notice the professor is configured with
    cancelRec,       \* a CancellationRecord for the consultation
    reschedRec,      \* a RescheduleRequest for the consultation
    resp,            \* what the last operation returned to its caller
    workers,         \* concurrent API requests in flight (SpecRace only)
    consultations,   \* the consultations table, by id (SpecRatings only)
    profiles,        \* each professor's ProfessorProfile row (SpecRatings only)
    slot,            \* a ConsultationSlot row (SpecLegacy only)
    bookings,        \* the slot's Booking row of each student (SpecLegacy only)
    creating         \* booking requests between check and insert (SpecLegacy only)

vars == <<now, con, profile, notice_setting, cancelRec, reschedRec, resp, workers,
         consultations, profiles, slot, bookings, creating>>

\* ------------------------------------------------------------------------
\* Consultation model
\* ------------------------------------------------------------------------
\* A row as Consultation.objects.create leaves it: field defaults
NewConsultation(d, tm, dur) ==
    [status |-> "PENDING",
     scheduled_date |-> d,
     scheduled_time |-> tm,
     duration |-> dur,
     confirmed_at |-> NoTime,
     cancelled_at |-> NoTime,
     cancellation_reason |-> None,
     google_calendar_event_id |-> None,
     rating |-> NoRating,
     feedback |-> None]

NoProfile == [exists |-> FALSE]
NewProfile == [exists |-> TRUE]

\* Consultation.get_datetime: combine(scheduled_date, scheduled_time), UTC
get_datetime(c) == c.scheduled_date * HoursPerDay + c.scheduled_time

\* try: professor.professor_profile.cancellation_notice_hours / except: 4
notice_hours(p, setting) ==
    IF p.exists /\ "cancellation_notice_hours" \in ProfileFields
    THEN setting
    ELSE DefaultNoticeHours

get_cancellation_deadline(c, p, setting) ==
    get_datetime(c) - notice_hours(p, setting)

\* Consultation._check_cancellation_deadline
check_cancellation_deadline(c, p, setting, t) ==
    t < get_datetime(c) - notice_hours(p, setting)

can_be_rated(c) == c.status = "COMPLETED" /\ c.rating = NoRating

\* variant: a rescheduled consultation counts as cancellable
can_be_cancelled_Rescheduled(c, p, setting, t) ==
    IF c.status \notin {"PENDING", "CONFIRMED", "RESCHEDULED"}
    THEN FALSE
    ELSE check_cancellation_deadline(c, p, setting, t)

can_be_cancelled(c, p, setting, t) ==
    IF c.status \notin {"PENDING", "CONFIRMED"}
    THEN FALSE
    ELSE check_cancellation_deadline(c, p, setting, t)

can_be_rescheduled(c, p, setting, t) ==
    IF c.status # "CONFIRMED"
    THEN FALSE
    ELSE check_cancellation_deadline(c, p, setting, t)

\* Guarded model methods: the row after the call and the returned boolean
\* variant: confirm() leaving confirmed_at alone
Consultation_confirm_NoTimestamp(c, t) ==
    IF c.status = "PENDING"
    THEN [con |-> [c EXCEPT !.status = "CONFIRMED"], ret |-> TRUE]
    ELSE [con |-> c, ret |-> FALSE]

Consultation_confirm(c, t) ==
    IF c.status = "PENDING"
    THEN [con |-> [c EXCEPT !.status = "CONFIRMED", !.confirmed_at = t],
          ret |-> TRUE]
    ELSE [con |-> c, ret |-> FALSE]

Consultation_cancel(c, p, setting, t, reason) ==
    IF can_be_cancelled(c, p, setting, t)
    THEN [con |-> [c EXCEPT !.status = "CANCELLED",
                            !.cancelled_at = t,
                            !.cancellation_reason =
                                IF reason # "" /\ reason # None
                                THEN reason ELSE @],
          ret |-> TRUE]
    ELSE [con |-> c, ret |-> FALSE]

Consultation_complete(c) ==
    IF c.status = "CONFIRMED"
    THEN [con |-> [c EXCEPT !.status = "COMPLETED"], ret |-> TRUE]
    ELSE [con |-> c, ret |-> FALSE]

Consultation_mark_no_show(c) ==
    IF c.status = "CONFIRMED"
    THEN [con |-> [c EXCEPT !.status = "NO_SHOW"], ret |-> TRUE]
    ELSE [con |-> c, ret |-> FALSE]

\* ------------------------------------------------------------------------
\* ConsultationService
\* ------------------------------------------------------------------------
\* ConsultationStatus.<name>: an AttributeError when the class has no such member
HasStatus(name) == name \in ConsultationStatus

\* variant: the status set without the timestamp
ConfirmUpdate_NoTimestamp(inst, t) ==
    [inst EXCEPT !.status = "CONFIRMED"]

\* step 1 of confirm_consultation / accept_reschedule: fields set, then save()
ConfirmUpdate(inst, t) ==
    [inst EXCEPT !.status = "CONFIRMED", !.confirmed_at = t]

\* step 1 of cancel_consultation
CancelUpdate(inst, t, reason) ==
    [inst EXCEPT !.status = "CANCELLED",
                 !.cancelled_at = t,
                 !.cancellation_reason = reason]

\* variant: the returned value stored without the `if event_id` test
SyncCreate_Unchecked(inst, cal) ==
    IF cal = "raise" THEN inst
    ELSE [inst EXCEPT !.google_calendar_event_id =
                          IF cal \in EventIds THEN cal ELSE None]

\* step 2 with create_event: the handle is written only for a truthy event id
SyncCreate(inst, cal) ==
    IF cal \in EventIds
    THEN [inst EXCEPT !.google_calendar_event_id = cal]
    ELSE inst

\* a service whose calendar block is not wrapped in try/except
ServiceRaises_NoCatch(cal, ntf) == cal = "raise" \/ ntf = "raise"

\* Does the service call raise?  The calendar block sits in try/except
\* Exception; the notification call does not.
ServiceRaises(cal, ntf) == ntf = "raise"

confirm_consultation(c, t, cal, ntf) ==
    [con |-> SyncCreate(ConfirmUpdate(c, t), cal),
     raised |-> ServiceRaises(cal, ntf),
     calendar |-> cal,
     notify |-> ntf]

cancel_consultation(c, t, reason, cal, ntf) ==
    LET c1 == CancelUpdate(c, t, reason)
        called == c1.google_calendar_event_id # None
        calres == IF ~called THEN "not_called"
                  ELSE IF cal = "raise" THEN "raise" ELSE "deleted"
    IN [con |-> c1,
        raised |-> ServiceRaises(calres, ntf),
        calendar |-> calres,
        notify |-> ntf]

propose_reschedule(c, new_time, new_date, ntf) ==
    IF ~HasStatus("RESCHEDULE_PROPOSED")
    THEN [con |-> c, raised |-> TRUE,
          calendar |-> "not_called", notify |-> "not_called"]
    ELSE [con |-> [c EXCEPT !.status = "RESCHEDULE_PROPOSED",
                            !.scheduled_time =
                                IF new_time # NoValue THEN new_time ELSE @,
                            !.scheduled_date =
                                IF new_date # NoValue THEN new_date ELSE @],
          raised |-> ServiceRaises("not_called", ntf),
          calendar |-> "not_called",
          notify |-> ntf]

accept_reschedule(c, t, cal, ntf) ==
    LET c1 == ConfirmUpdate(c, t)
        hasEvent == c1.google_calendar_event_id # None
        calres == IF ~hasEvent THEN cal
                  ELSE IF cal = "raise" THEN "raise" ELSE "updated"
    IN [con |-> IF hasEvent THEN c1 ELSE SyncCreate(c1, cal),
        raised |-> ServiceRaises(calres, ntf),
        calendar |-> calres,
        notify |-> ntf]

\* ------------------------------------------------------------------------
\* Responses
\* ------------------------------------------------------------------------
Response(op, outcome, error, calendar, notify) ==
    [op |-> op, outcome |-> outcome, error |-> error,
     calendar |-> calendar, notify |-> notify]

Plain(op, outcome, error) ==
    Response(op, outcome, error, "not_called", "not_called")

\* ------------------------------------------------------------------------
\* ConsultationViewSet (REST actions)
\* ------------------------------------------------------------------------
ViewSet_confirm(c, t, cal, ntf) ==
    IF c.status # "PENDING"
    THEN [con |-> c,
          resp |-> Plain("api_confirm", "400",
                         "Only pending consultations can be confirmed.")]
    ELSE LET s == confirm_consultation(c, t, cal, ntf)
         IN \* except Exception: pass -- the view answers 200 either way
            [con |-> s.con,
             resp |-> Response("api_confirm", "200", "", s.calendar, s.notify)]

ViewSet_cancel(c, p, setting, t, reason, cal, ntf) ==
    IF ~can_be_cancelled(c, p, setting, t)
    THEN [con |-> c,
          resp |-> Plain("api_cancel", "400",
                         "This consultation cannot be cancelled.")]
    ELSE LET s == cancel_consultation(c, t, reason, cal, ntf)
         IN [con |-> s.con,
             resp |-> Response("api_cancel",
                               IF s.raised THEN "500" ELSE "200", "",
                               s.calendar, s.notify)]

\* ConsultationUpdateSerializer(partial=True).save(status=...)
SerializerSave(c, new_date, new_time, new_dur, st) ==
    [c EXCEPT !.scheduled_date = IF new_date # NoValue THEN new_date ELSE @,
              !.scheduled_time = IF new_time # NoValue THEN new_time ELSE @,
              !.duration = IF new_dur # NoValue THEN new_dur ELSE @,
              !.status = st]

ValidDuration(d) == d = NoValue \/ (d >= MinDuration /\ d <= MaxDuration)

ViewSet_reschedule(c, t, new_date, new_time, new_dur, ntf) ==
    IF c.status # "CONFIRMED"
    THEN [con |-> c,
          resp |-> Plain("api_reschedule", "400",
                         "Only confirmed consultations can be rescheduled.")]
    ELSE IF ~ValidDuration(new_dur)
    THEN [con |-> c, resp |-> Plain("api_reschedule", "400", "invalid")]
    ELSE LET c1 == SerializerSave(c, new_date, new_time, new_dur, "PENDING")
             s == propose_reschedule(c1, new_time, new_date, ntf)
         IN IF s.raised
            THEN [con |-> s.con,
                  resp |-> Response("api_reschedule", "500", "",
                                    s.calendar, s.notify)]
            ELSE [con |-> SerializerSave(s.con, new_date, new_time, new_dur,
                                         "RESCHEDULE_PROPOSED"),
                  resp |-> Response("api_reschedule", "200", "",
                                    s.calendar, s.notify)]

ViewSet_complete(c) ==
    IF c.status # "CONFIRMED"
    THEN [con |-> c,
          resp |-> Plain("api_complete", "400",
                         "Only confirmed consultations can be completed.")]
    ELSE [con |-> Consultation_complete(c).con,
          resp |-> Plain("api_complete", "200", "")]

ViewSet_no_show(c) ==
    IF c.status # "CONFIRMED"
    THEN [con |-> c,
          resp |-> Plain("api_no_show", "400",
                         "Only confirmed consultations can be marked as no-show.")]
    ELSE [con |-> Consultation_mark_no_show(c).con,
          resp |-> Plain("api_no_show", "200", "")]

ViewSet_rate(c, rating, feedback) ==
    IF ~can_be_rated(c)
    THEN [con |-> c,
          resp |-> Plain("api_rate", "400",
                         "This consultation cannot be rated.")]
    ELSE IF rating < MinRating \/ rating > MaxRating
    THEN [con |-> c, resp |-> Plain("api_rate", "400", "invalid")]
    ELSE [con |-> [c EXCEPT !.rating = rating, !.feedback = feedback],
          resp |-> Plain("api_rate", "200", "")]

\* ------------------------------------------------------------------------
\* Frontend views
\* ------------------------------------------------------------------------
\* a notification call outside any try block: the view fails when it raises
AfterNotify(op, ntf) ==
    Response(op, IF ntf = "raise" THEN "500" ELSE "302", "", "not_called", ntf)

professor_consultation_action(c, t, action, reason, new_time, ntf) ==
    IF action = "confirm"
    THEN [con |-> ConfirmUpdate(c, t),
          resp |-> AfterNotify("prof_confirm", ntf)]
    ELSE IF action = "cancel"
    THEN [con |-> CancelUpdate(c, t, reason),
          resp |-> AfterNotify("prof_cancel", ntf)]
    ELSE IF action = "reschedule"
    THEN IF new_time = NoValue
         THEN [con |-> c,
               resp |-> Plain("prof_reschedule", "302",
                              "New time is required for rescheduling.")]
         ELSE IF ~HasStatus("RESCHEDULE_PROPOSED")
         THEN [con |-> c, resp |-> Plain("prof_reschedule", "500", "")]
         ELSE [con |-> [c EXCEPT !.status = "RESCHEDULE_PROPOSED",
                                 !.scheduled_time = new_time],
               resp |-> AfterNotify("prof_reschedule", ntf)]
    ELSE [con |-> c, resp |-> Plain("prof_other", "302", "")]

student_consultation_action(c, t, action, ntf) ==
    IF action = "accept_reschedule"
    THEN [con |-> ConfirmUpdate(c, t),
          resp |-> AfterNotify("student_accept", ntf)]
    ELSE IF action = "reject_reschedule"
    THEN [con |-> CancelUpdate(c, t, StudentRejected),
          resp |-> AfterNotify("student_reject", ntf)]
    ELSE [con |-> c, resp |-> Plain("student_other", "302", "")]

rate_consultation(c, rating, feedback) ==
    IF c.status # "COMPLETED"
    THEN [con |-> c,
          resp |-> Plain("front_rate", "302",
                         "You can only rate completed consultations.")]
    ELSE IF rating < MinRating \/ rating > MaxRating
    THEN [con |-> c,
          resp |-> Plain("front_rate", "302",
                         "Rating must be between 1 and 5 stars.")]
    ELSE [con |-> [c EXCEPT !.rating = rating, !.feedback = feedback],
          resp |-> Plain("front_rate", "302", "")]

\* ------------------------------------------------------------------------
\* State machine: one request at a time
\* ------------------------------------------------------------------------
Workers == {"w1", "w2"}

\* a request that has not started: nothing loaded, nothing done
IdleWorker ==
    [pc |-> "idle", op |-> "", inst |-> NewConsultation(0, 0, 0),
     seen |-> "", reason |-> "", outcome |-> "", saved |-> FALSE,
     calendar |-> "not_called", notify |-> "not_called"]

NoCancellationRecord ==
    [status |-> "ABSENT", reason |-> None, processed_by |-> None,
     processed_at |-> NoTime, admin_note |-> None]

NoRescheduleRequest ==
    [status |-> "ABSENT", new_date |-> NoValue, new_time |-> NoValue,
     new_duration |-> NoValue, processed_by |-> None,
     processed_at |-> NoTime, admin_note |-> None]

\* The consultations table and the professors' cached ratings
ConsIds == 1..MaxConsultations
Professors == {"p1", "p2"}

\* Consultation.professor: every fourth consultation is the second
\* professor's, the others the first professor's
ProfessorOf(i) == IF i % 4 = 0 THEN "p2" ELSE "p1"

RatingInputs == {3, 4, 5}

\* average_rating is kept in hundredths (DecimalField, two decimal places)
NoProfessorProfile ==
    [exists |-> FALSE, average_rating |-> 0, total_reviews |-> 0]
NewProfessorProfile ==
    [exists |-> TRUE, average_rating |-> 0, total_reviews |-> 0]

\* a consultation that was confirmed and completed, not yet rated
CompletedRow ==
    Consultation_complete(
        Consultation_confirm(NewConsultation(CHOOSE d \in Dates : TRUE,
                                             CHOOSE tm \in Times : TRUE,
                                             CHOOSE dur \in Durations : TRUE),
                             0).con).con

StoredRow(r) == [exists |-> TRUE, row |-> r]
DeletedRow == [exists |-> FALSE, row |-> CompletedRow]

\* A consultation as perform_create stores it
Booked ==
    /\ now = 0
    /\ con \in {NewConsultation(d, tm, dur) :
                    d \in Dates, tm \in Times, dur \in Durations}
    /\ profile = NoProfile
    /\ cancelRec = NoCancellationRecord
    /\ reschedRec = NoRescheduleRequest
    /\ resp = Plain("create", "201", "")
    /\ workers = [w \in Workers |-> IdleWorker]
    /\ consultations = [i \in ConsIds |-> StoredRow(CompletedRow)]
    /\ profiles = [p \in Professors |-> NoProfessorProfile]
    /\ bookings = [s \in SlotStudents |-> "none"]
    /\ creating = [s \in SlotStudents |-> "idle"]

\* ConsultationSlot as created: status 'available'
NewSlot(n) == [status |-> "available", max_students |-> n]

Init ==
    /\ Booked
    /\ notice_setting = DefaultNoticeHours
    /\ slot = NewSlot(DefaultMaxStudents)

Apply(r) ==
    /\ con' = r.con
    /\ resp' = r.resp
    /\ UNCHANGED <<consultations, profiles, slot, bookings, creating>>
    /\ UNCHANGED <<now, profile, notice_setting, cancelRec, reschedRec, workers>>

Returned(op, r) ==
    [con |-> r.con, resp |-> Plain(op, IF r.ret THEN "True" ELSE "False", "")]

Serviced(op, s) ==
    [con |-> s.con,
     resp |-> Response(op, IF s.raised THEN "raised" ELSE "returned", "",
                       s.calendar, s.notify)]

Tick ==
    /\ now < MaxTime
    /\ now' = now + 1
    /\ resp' = Plain("tick", "", "")
    /\ UNCHANGED <<consultations, profiles, slot, bookings, creating>>
    /\ UNCHANGED <<con, profile, notice_setting, cancelRec, reschedRec, workers>>

\* ProfessorProfile.objects.create(user=user) on the professor's first visit
CreateProfile ==
    /\ ~profile.exists
    /\ profile' = NewProfile
    /\ resp' = Plain("create_profile", "302", "")
    /\ UNCHANGED <<consultations, profiles, slot, bookings, creating>>
    /\ UNCHANGED <<now, con, notice_setting, cancelRec, reschedRec, workers>>

Call_confirm == Apply(Returned("model_confirm", Consultation_confirm(con, now)))

Call_cancel ==
    \E reason \in Reasons :
        Apply(Returned("model_cancel",
                       Consultation_cancel(con, profile, notice_setting, now, reason)))

Call_complete == Apply(Returned("model_complete", Consultation_complete(con)))

Call_mark_no_show ==
    Apply(Returned("model_no_show", Consultation_mark_no_show(con)))

Call_confirm_consultation ==
    \E cal \in CalendarOutcomes, ntf \in NotifyOutcomes :
        Apply(Serviced("svc_confirm", confirm_consultation(con, now, cal, ntf)))

Call_cancel_consultation ==
    \E reason \in Reasons, cal \in CalendarOutcomes, ntf \in NotifyOutcomes :
        Apply(Serviced("svc_cancel",
                       cancel_consultation(con, now, reason, cal, ntf)))

Call_propose_reschedule ==
    \E nt \in Times \cup {NoValue}, nd \in Dates \cup {NoValue},
       ntf \in NotifyOutcomes :
        Apply(Serviced("svc_propose", propose_reschedule(con, nt, nd, ntf)))

Call_accept_reschedule ==
    \E cal \in CalendarOutcomes, ntf \in NotifyOutcomes :
        Apply(Serviced("svc_accept", accept_reschedule(con, now, cal, ntf)))

Api_confirm ==
    \E cal \in CalendarOutcomes, ntf \in NotifyOutcomes :
        Apply(ViewSet_confirm(con, now, cal, ntf))

Api_cancel ==
    \E reason \in Reasons, cal \in CalendarOutcomes, ntf \in NotifyOutcomes :
        Apply(ViewSet_cancel(con, profile, notice_setting, now, reason, cal, ntf))

Api_reschedule ==
    \E nd \in Dates \cup {NoValue}, nt \in Times \cup {NoValue},
       dur \in Durations \cup {NoValue}, ntf \in NotifyOutcomes :
        Apply(ViewSet_reschedule(con, now, nd, nt, dur, ntf))

Api_complete == Apply(ViewSet_complete(con))

Api_no_show == Apply(ViewSet_no_show(con))

Api_rate ==
    \E rating \in Ratings, feedback \in Feedbacks :
        Apply(ViewSet_rate(con, rating, feedback))

Front_professor_confirm ==
    \E ntf \in NotifyOutcomes :
        Apply(professor_consultation_action(con, now, "confirm", "", NoValue, ntf))

Front_professor_cancel ==
    \E reason \in Reasons, ntf \in NotifyOutcomes :
        Apply(professor_consultation_action(con, now, "cancel", reason, NoValue, ntf))

Front_professor_reschedule ==
    \E nt \in Times \cup {NoValue}, ntf \in NotifyOutcomes :
        Apply(professor_consultation_action(con, now, "reschedule", "", nt, ntf))

Front_student_accept ==
    \E ntf \in NotifyOutcomes :
        Apply(student_consultation_action(con, now, "accept_reschedule", ntf))

Front_student_reject ==
    \E ntf \in NotifyOutcomes :
        Apply(student_consultation_action(con, now, "reject_reschedule", ntf))

Front_rate ==
    \E rating \in Ratings, feedback \in Feedbacks :
        Apply(rate_consultation(con, rating, feedback))

Next ==
    \/ Tick
    \/ Call_confirm
    \/ Call_cancel
    \/ Call_complete
    \/ Call_mark_no_show
    \/ Call_confirm_consultation
    \/ Call_cancel_consultation
    \/ Call_propose_reschedule
    \/ Call_accept_reschedule
    \/ Api_confirm
    \/ Api_cancel
    \/ Api_reschedule
    \/ Api_complete
    \/ Api_no_show
    \/ Api_rate
    \/ Front_professor_confirm
    \/ Front_professor_cancel
    \/ Front_professor_reschedule
    \/ Front_student_accept
    \/ Front_student_reject
    \/ Front_rate

Spec == Init /\ [][Next]_vars

\* The cancellation policy: professors with any configured notice, with and
\* without a profile row
InitPolicy ==
    /\ Booked
    /\ notice_setting \in NoticeSettings
    /\ slot = NewSlot(DefaultMaxStudents)

NextPolicy ==
    \/ Tick
    \/ CreateProfile
    \/ Call_confirm
    \/ Call_cancel
    \/ Call_complete
    \/ Api_confirm
    \/ Api_cancel

SpecPolicy == InitPolicy /\ [][NextPolicy]_vars

\* ------------------------------------------------------------------------
\* Two API requests in flight on the same consultation.  A request is a
\* sequence of database accesses: get_object() reads the row, every
\* save() writes all columns of the in-memory instance; nothing is locked
\* and no transaction spans the request.
\* ------------------------------------------------------------------------
RaceOps == {"confirm", "cancel"}

\* the check the view makes on the instance it loaded
RaceRefused(op, inst, t) ==
    IF op = "confirm"
    THEN inst.status # "PENDING"
    ELSE ~can_be_cancelled(inst, profile, notice_setting, t)

\* get_object() and the status check of ViewSet.confirm / ViewSet.cancel
Race_begin(w) ==
    /\ workers[w].pc = "idle"
    /\ \E op \in RaceOps, reason \in Reasons :
          /\ op = "confirm" => reason = ""
          /\ workers' = [workers EXCEPT ![w] =
                 [@ EXCEPT !.op = op,
                           !.inst = con,
                           !.seen = con.status,
                           !.reason = reason,
                           !.pc = IF RaceRefused(op, con, now)
                                  THEN "done" ELSE "checked",
                           !.outcome = IF RaceRefused(op, con, now)
                                       THEN "400" ELSE ""]]
    /\ UNCHANGED <<consultations, profiles, slot, bookings, creating>>
    /\ UNCHANGED <<now, con, profile, notice_setting, cancelRec, reschedRec, resp>>

\* step 1 of the service: assign the fields and save() the instance
Race_save(w) ==
    /\ workers[w].pc = "checked"
    /\ LET inst == IF workers[w].op = "confirm"
                   THEN ConfirmUpdate(workers[w].inst, now)
                   ELSE CancelUpdate(workers[w].inst, now, workers[w].reason)
       IN /\ con' = inst
          /\ workers' = [workers EXCEPT ![w] =
                 [@ EXCEPT !.inst = inst, !.saved = TRUE, !.pc = "saved"]]
    /\ UNCHANGED <<consultations, profiles, slot, bookings, creating>>
    /\ UNCHANGED <<now, profile, notice_setting, cancelRec, reschedRec, resp>>

\* event ids already handed out by the calendar
IssuedEvents ==
    {workers[w].calendar : w \in Workers} \cap EventIds

\* step 2 of the service: the calendar call, and a second save() when
\* create_event returned an id
Race_sync(w) ==
    /\ workers[w].pc = "saved"
    /\ \E cal \in CalendarOutcomes \ IssuedEvents :
          IF workers[w].op = "confirm"
          THEN LET inst == SyncCreate(workers[w].inst, cal)
               IN /\ con' = IF cal \in EventIds THEN inst ELSE con
                  /\ workers' = [workers EXCEPT ![w] =
                         [@ EXCEPT !.inst = inst, !.calendar = cal,
                                   !.pc = "synced"]]
          ELSE /\ con' = con
               /\ cal \in {"none", "raise"}
               /\ workers' = [workers EXCEPT ![w] =
                      [@ EXCEPT !.calendar =
                             IF workers[w].inst.google_calendar_event_id = None
                             THEN "not_called"
                             ELSE IF cal = "raise" THEN "raise" ELSE "deleted",
                                !.pc = "synced"]]
    /\ UNCHANGED <<consultations, profiles, slot, bookings, creating>>
    /\ UNCHANGED <<now, profile, notice_setting, cancelRec, reschedRec, resp>>

\* step 3 of the service and the view's response
Race_notify(w) ==
    /\ workers[w].pc = "synced"
    /\ \E ntf \in NotifyOutcomes :
          workers' = [workers EXCEPT ![w] =
              [@ EXCEPT !.notify = ntf,
                        !.outcome = IF workers[w].op = "cancel" /\ ntf = "raise"
                                    THEN "500" ELSE "200",
                        !.pc = "done"]]
    /\ UNCHANGED <<consultations, profiles, slot, bookings, creating>>
    /\ UNCHANGED <<now, con, profile, notice_setting, cancelRec, reschedRec, resp>>

NextRace ==
    \/ Tick
    \/ \E w \in Workers : Race_begin(w)
    \/ \E w \in Workers : Race_save(w)
    \/ \E w \in Workers : Race_sync(w)
    \/ \E w \in Workers : Race_notify(w)

SpecRace == Init /\ [][NextRace]_vars

\* ------------------------------------------------------------------------
\* Request workflow: CancellationRecord and RescheduleRequest
\* ------------------------------------------------------------------------
\* the bookkeeping shared by every approve() and reject()
Processed(rec, st, user, note, t) ==
    [rec EXCEPT !.status = st,
                !.processed_by = user,
                !.processed_at = t,
                !.admin_note = IF note # "" THEN note ELSE @]

\* variant: the record marked approved whatever cancel() returned
CancellationRecord_approve_Always(rec, c, p, setting, t, user, note) ==
    LET r == Consultation_cancel(c, p, setting, t, rec.reason)
    IN [con |-> r.con,
        rec |-> Processed(rec, "APPROVED", user, note, t),
        ret |-> TRUE]

CancellationRecord_approve(rec, c, p, setting, t, user, note) ==
    LET r == Consultation_cancel(c, p, setting, t, rec.reason)
    IN [con |-> r.con,
        rec |-> Processed(rec, IF r.ret THEN "APPROVED" ELSE "REJECTED",
                          user, note, t),
        ret |-> r.ret]

CancellationRecord_reject(rec, c, t, user, note) ==
    [con |-> c, rec |-> Processed(rec, "REJECTED", user, note, t), ret |-> FALSE]

\* variant: an approve that drops the proposed duration
RescheduleRequest_approve_KeepsDuration(rec, c, t, user, note) ==
    [con |-> [c EXCEPT !.scheduled_date = rec.new_date,
                       !.scheduled_time = rec.new_time,
                       !.status = "RESCHEDULED"],
     rec |-> Processed(rec, "APPROVED", user, note, t),
     ret |-> TRUE]

RescheduleRequest_approve(rec, c, t, user, note) ==
    [con |-> [c EXCEPT !.scheduled_date = rec.new_date,
                       !.scheduled_time = rec.new_time,
                       !.duration = IF rec.new_duration \notin {NoValue, 0}
                                    THEN rec.new_duration ELSE @,
                       !.status = "RESCHEDULED"],
     rec |-> Processed(rec, "APPROVED", user, note, t),
     ret |-> TRUE]

\* variant: a reject that also writes the consultation
RescheduleRequest_reject_Touching(rec, c, t, user, note) ==
    [con |-> [c EXCEPT !.status = "RESCHEDULED"],
     rec |-> Processed(rec, "REJECTED", user, note, t), ret |-> TRUE]

RescheduleRequest_reject(rec, c, t, user, note) ==
    [con |-> c, rec |-> Processed(rec, "REJECTED", user, note, t), ret |-> TRUE]

\* CancellationRecord.objects.create(consultation, reason): status REQUESTED
Create_cancellation_record ==
    /\ cancelRec.status = "ABSENT"
    /\ \E reason \in RecordReasons :
          cancelRec' = [NoCancellationRecord EXCEPT !.status = "REQUESTED",
                                                    !.reason = reason]
    /\ resp' = Plain("cancelrec_create", "201", "")
    /\ UNCHANGED <<consultations, profiles, slot, bookings, creating>>
    /\ UNCHANGED <<now, con, profile, notice_setting, reschedRec, workers>>

Approve_cancellation ==
    /\ cancelRec.status # "ABSENT"
    /\ \E user \in Processors, note \in Notes :
          LET r == CancellationRecord_approve(cancelRec, con, profile,
                                              notice_setting, now, user, note)
          IN /\ con' = r.con
             /\ cancelRec' = r.rec
             /\ resp' = Plain("cancelrec_approve",
                              IF r.ret THEN "True" ELSE "False", "")
    /\ UNCHANGED <<consultations, profiles, slot, bookings, creating>>
    /\ UNCHANGED <<now, profile, notice_setting, reschedRec, workers>>

Reject_cancellation ==
    /\ cancelRec.status # "ABSENT"
    /\ \E user \in Processors, note \in Notes :
          LET r == CancellationRecord_reject(cancelRec, con, now, user, note)
          IN /\ con' = r.con
             /\ cancelRec' = r.rec
             /\ resp' = Plain("cancelrec_reject", "None", "")
    /\ UNCHANGED <<consultations, profiles, slot, bookings, creating>>
    /\ UNCHANGED <<now, profile, notice_setting, reschedRec, workers>>

\* RescheduleRequest.objects.create(consultation, new_date, new_time, ...)
Create_reschedule_request ==
    /\ reschedRec.status = "ABSENT"
    /\ \E nd \in Dates, nt \in NewTimes, dur \in NewDurations :
          reschedRec' = [NoRescheduleRequest EXCEPT !.status = "REQUESTED",
                                                    !.new_date = nd,
                                                    !.new_time = nt,
                                                    !.new_duration = dur]
    /\ resp' = Plain("reschedreq_create", "201", "")
    /\ UNCHANGED <<consultations, profiles, slot, bookings, creating>>
    /\ UNCHANGED <<now, con, profile, notice_setting, cancelRec, workers>>

Approve_reschedule ==
    /\ reschedRec.status # "ABSENT"
    /\ \E user \in Processors, note \in Notes :
          LET r == RescheduleRequest_approve(reschedRec, con, now, user, note)
          IN /\ con' = r.con
             /\ reschedRec' = r.rec
             /\ resp' = Plain("reschedreq_approve", "True", "")
    /\ UNCHANGED <<consultations, profiles, slot, bookings, creating>>
    /\ UNCHANGED <<now, profile, notice_setting, cancelRec, workers>>

Reject_reschedule ==
    /\ reschedRec.status # "ABSENT"
    /\ \E user \in Processors, note \in Notes :
          LET r == RescheduleRequest_reject(reschedRec, con, now, user, note)
          IN /\ con' = r.con
             /\ reschedRec' = r.rec
             /\ resp' = Plain("reschedreq_reject", "True", "")
    /\ UNCHANGED <<consultations, profiles, slot, bookings, creating>>
    /\ UNCHANGED <<now, profile, notice_setting, cancelRec, workers>>

\* the request records, with the guarded operations that bring the
\* consultation to each status
NextRequests ==
    \/ Tick
    \/ Call_confirm
    \/ Call_cancel
    \/ Call_complete
    \/ Call_mark_no_show
    \/ Create_cancellation_record
    \/ Approve_cancellation
    \/ Reject_cancellation
    \/ Create_reschedule_request
    \/ Approve_reschedule
    \/ Reject_reschedule

SpecRequests == Init /\ [][NextRequests]_vars

\* ------------------------------------------------------------------------
\* Rating aggregator: ProfessorProfile.calculate_ratings and its signals
\* ------------------------------------------------------------------------
\* variant: the filter without professor=self.user
RatedConsultations_AnyProfessor(tbl, p) ==
    {i \in ConsIds : tbl[i].exists /\ tbl[i].row.rating # NoRating}

\* Consultation.objects.filter(professor=self.user, rating__isnull=False)
RatedConsultations(tbl, p) ==
    {i \in ConsIds : /\ tbl[i].exists
                     /\ ProfessorOf(i) = p
                     /\ tbl[i].row.rating # NoRating}

RECURSIVE SumRatings(_, _)
SumRatings(tbl, S) ==
    IF S = {} THEN 0
    ELSE LET i == CHOOSE x \in S : TRUE
         IN tbl[i].row.rating + SumRatings(tbl, S \ {i})

\* round(avg, 2) stored in a two-decimal field, in hundredths; a tie goes
\* to the even neighbour
RoundHundredths(sum, n) ==
    LET q == (100 * sum) \div n
        r == (100 * sum) % n
    IN IF 2 * r < n THEN q
       ELSE IF 2 * r > n THEN q + 1
       ELSE IF q % 2 = 0 THEN q ELSE q + 1

\* variant: the review count added to the cached one
calculate_ratings_Accumulating(prof, tbl, p) ==
    LET S == RatedConsultations(tbl, p)
        total == Cardinality(S)
    IN [prof EXCEPT !.average_rating =
                        IF total = 0 THEN 0
                        ELSE RoundHundredths(SumRatings(tbl, S), total),
                    !.total_reviews = @ + total]

\* the profile row after calculate_ratings()
calculate_ratings(prof, tbl, p) ==
    LET S == RatedConsultations(tbl, p)
        total == Cardinality(S)
    IN [prof EXCEPT !.average_rating =
                        IF total = 0 THEN 0
                        ELSE RoundHundredths(SumRatings(tbl, S), total),
                    !.total_reviews = total]

\* post_save / post_delete receiver for the consultation row `r` of professor p
update_professor_rating(profs, tbl, r, p) ==
    IF r.rating # NoRating /\ profs[p].exists
    THEN [profs EXCEPT ![p] = calculate_ratings(@, tbl, p)]
    ELSE profs

RatingResponse(op, outcome, p, again) ==
    [op |-> op, outcome |-> outcome, error |-> "",
     calendar |-> "not_called", notify |-> "not_called",
     professor |-> p, again |-> again]

RatingFrame ==
    UNCHANGED <<now, con, profile, notice_setting, cancelRec, reschedRec,
                workers, slot, bookings, creating>>

\* Consultation.save() on row i followed by the post_save receiver
SaveRow(i, r) ==
    LET tbl == [consultations EXCEPT ![i] = StoredRow(r)]
    IN /\ consultations' = tbl
       /\ profiles' = update_professor_rating(profiles, tbl, r, ProfessorOf(i))

\* POST /api/consultations/<i>/rate/
Ratings_api_rate ==
    \E i \in ConsIds, rating \in RatingInputs, feedback \in Feedbacks :
        /\ consultations[i].exists
        /\ LET v == ViewSet_rate(consultations[i].row, rating, feedback)
           IN /\ IF v.resp.outcome = "200" THEN SaveRow(i, v.con)
                 ELSE UNCHANGED <<consultations, profiles, slot, bookings, creating>>
              /\ resp' = RatingResponse("api_rate", v.resp.outcome,
                                        ProfessorOf(i), FALSE)
        /\ RatingFrame

\* the frontend rating view: save (and its receiver), then the explicit
\* calculate_ratings() call when the professor has a profile
Ratings_front_rate ==
    \E i \in ConsIds, rating \in RatingInputs, feedback \in Feedbacks :
        /\ consultations[i].exists
        /\ LET p == ProfessorOf(i)
               v == rate_consultation(consultations[i].row, rating, feedback)
               tbl == [consultations EXCEPT ![i] = StoredRow(v.con)]
               signalled == update_professor_rating(profiles, tbl, v.con, p)
           IN /\ IF v.resp.error = ""
                 THEN /\ consultations' = tbl
                      /\ profiles' =
                            IF signalled[p].exists
                            THEN [signalled EXCEPT
                                     ![p] = calculate_ratings(@, tbl, p)]
                            ELSE signalled
                 ELSE UNCHANGED <<consultations, profiles, slot, bookings, creating>>
              /\ resp' = RatingResponse("front_rate", v.resp.outcome, p, FALSE)
        /\ RatingFrame

\* DELETE /api/consultations/<i>/: instance.delete() and its post_delete
\* receiver
Ratings_destroy ==
    \E i \in ConsIds :
        /\ consultations[i].exists
        /\ LET tbl == [consultations EXCEPT ![i] = DeletedRow]
           IN /\ consultations' = tbl
              /\ profiles' = update_professor_rating(profiles, tbl,
                                                     consultations[i].row,
                                                     ProfessorOf(i))
        /\ resp' = RatingResponse("api_destroy", "204", ProfessorOf(i), FALSE)
        /\ RatingFrame

\* ProfessorProfile.objects.create(user=user) on first access
Ratings_create_profile ==
    \E p \in Professors :
        /\ ~profiles[p].exists
        /\ profiles' = [profiles EXCEPT ![p] = NewProfessorProfile]
        /\ resp' = RatingResponse("create_profile", "created", p, FALSE)
        /\ UNCHANGED consultations
        /\ RatingFrame

\* profile.calculate_ratings(); `again` tells a run that directly follows a
\* run for the same professor
Ratings_calculate ==
    \E p \in Professors :
        /\ profiles[p].exists
        /\ profiles' = [profiles EXCEPT
                           ![p] = calculate_ratings(@, consultations, p)]
        /\ resp' = RatingResponse("calculate_ratings", "returned", p,
                                  resp.op = "calculate_ratings"
                                  /\ resp.professor = p)
        /\ UNCHANGED consultations
        /\ RatingFrame

NextRatings ==
    \/ Ratings_api_rate
    \/ Ratings_front_rate
    \/ Ratings_destroy
    \/ Ratings_create_profile
    \/ Ratings_calculate

\* the consultations table as in Init, around one booked consultation
InitRatings == Init /\ con = NewConsultation(0, CHOOSE tm \in Times : TRUE,
                                             CHOOSE dur \in Durations : TRUE)

SpecRatings == InitRatings /\ [][NextRatings]_vars

\* ------------------------------------------------------------------------
\* Callers: who may run which handler
\* ------------------------------------------------------------------------
\* the two parties of the consultation, one more user of each role, an admin
TheStudent == "s1"
TheProfessor == "p1"
Users == {"s1", "s2", "p1", "p2", "admin"}

RoleOf(u) ==
    IF u \in {"s1", "s2"} THEN "STUDENT"
    ELSE IF u \in {"p1", "p2"} THEN "PROFESSOR"
    ELSE "ADMIN"

\* role permissions of the calling layer
IsStudent(u) == RoleOf(u) = "STUDENT"
IsProfessor(u) == RoleOf(u) = "PROFESSOR"

\* the permission under which cancel admits either party
IsOwnerOrProfessor(u) == u \in {TheStudent, TheProfessor}

\* get_queryset(): the rows get_object() can find for this caller
InQueryset(u) ==
    IF RoleOf(u) = "STUDENT" THEN u = TheStudent
    ELSE IF RoleOf(u) = "PROFESSOR" THEN u = TheProfessor
    ELSE RoleOf(u) = "ADMIN"

WithCaller(r, u) ==
    [op |-> r.op, outcome |-> r.outcome, error |-> r.error,
     calendar |-> r.calendar, notify |-> r.notify, caller |-> u]

\* a handler run for caller u: refused without change unless admitted
CallAs(u, admitted, r) ==
    /\ IF admitted
       THEN /\ con' = r.con
            /\ resp' = WithCaller(r.resp, u)
       ELSE /\ con' = con
            /\ resp' = WithCaller(Plain(r.resp.op, "403", "denied"), u)
    /\ UNCHANGED <<consultations, profiles, slot, bookings, creating>>
    /\ UNCHANGED <<now, profile, notice_setting, cancelRec, reschedRec, workers>>

Auth_api_confirm ==
    \E u \in Users :
        CallAs(u, IsProfessor(u) /\ InQueryset(u),
               ViewSet_confirm(con, now, "none", "sent"))

Auth_api_cancel ==
    \E u \in Users, reason \in Reasons :
        CallAs(u, IsOwnerOrProfessor(u) /\ InQueryset(u),
               ViewSet_cancel(con, profile, notice_setting, now, reason,
                              "none", "sent"))

Auth_api_reschedule ==
    \E u \in Users, new_date \in Dates :
        CallAs(u, IsOwnerOrProfessor(u) /\ InQueryset(u),
               ViewSet_reschedule(con, now, new_date, NoValue, NoValue, "sent"))

Auth_api_complete ==
    \E u \in Users :
        CallAs(u, IsProfessor(u) /\ InQueryset(u), ViewSet_complete(con))

Auth_api_no_show ==
    \E u \in Users :
        CallAs(u, IsProfessor(u) /\ InQueryset(u), ViewSet_no_show(con))

Auth_api_rate ==
    \E u \in Users, rating \in Ratings, feedback \in Feedbacks :
        CallAs(u, IsStudent(u) /\ InQueryset(u) /\ u = TheStudent,
               ViewSet_rate(con, rating, feedback))

\* professor_consultation_action: role check, then the row looked up with
\* professor=user
Auth_front_professor ==
    \E u \in Users, action \in {"confirm", "cancel", "reschedule"},
       reason \in Reasons :
        CallAs(u, IsProfessor(u) /\ u = TheProfessor,
               professor_consultation_action(con, now, action, reason,
                                             CHOOSE tm \in NewTimes : TRUE,
                                             "sent"))

\* student_consultation_action: the row looked up with student=user
Auth_front_student ==
    \E u \in Users, action \in {"accept_reschedule", "reject_reschedule"} :
        CallAs(u, u = TheStudent,
               student_consultation_action(con, now, action, "sent"))

Auth_front_rate ==
    \E u \in Users, rating \in Ratings, feedback \in Feedbacks :
        CallAs(u, u = TheStudent, rate_consultation(con, rating, feedback))

NextAuth ==
    \/ Tick
    \/ Auth_api_confirm
    \/ Auth_api_cancel
    \/ Auth_api_reschedule
    \/ Auth_api_complete
    \/ Auth_api_no_show
    \/ Auth_api_rate
    \/ Auth_front_professor
    \/ Auth_front_student
    \/ Auth_front_rate

SpecAuth == Init /\ [][NextAuth]_vars

\* ------------------------------------------------------------------------
\* Slot booking (consultation_scheduler.consultations)
\* ------------------------------------------------------------------------
ActiveStatuses == {"pending", "confirmed"}

\* slot.bookings.filter(status__in=['pending', 'confirmed'])
ActiveBookings(bk) == {s \in SlotStudents : bk[s] \in ActiveStatuses}

\* BookingViewSet.get_queryset: a student sees their own bookings, the
\* professor those of their slots
BookingVisible(bk, s, u) == bk[s] # "none" /\ (u = s \/ u = SlotProfessor)

\* BookingSerializer.create up to the insert: the three checks, read from
\* the database as it is when the request runs them
BookingSerializer_checks(sl, bk, s) ==
    IF sl.status # "available" THEN "not_available"
    ELSE IF bk[s] \in ActiveStatuses THEN "already_booked"
    ELSE IF Cardinality(ActiveBookings(bk)) >= sl.max_students
         THEN "fully_booked"
    ELSE "ok"

\* super().create(): the insert, refused by unique_together (slot, student)
\* when the student already has a row for the slot
BookingSerializer_insert(bk, s) ==
    IF bk[s] # "none"
    THEN [bookings |-> bk, outcome |-> "500"]
    ELSE [bookings |-> [bk EXCEPT ![s] = "pending"], outcome |-> "201"]

BookingViewSet_confirm(sl, bk, s, u) ==
    IF ~BookingVisible(bk, s, u)
    THEN [slot |-> sl, bookings |-> bk, outcome |-> "404"]
    ELSE IF u # SlotProfessor
    THEN [slot |-> sl, bookings |-> bk, outcome |-> "403"]
    ELSE [slot |-> IF sl.status = "available"
                   THEN [sl EXCEPT !.status = "booked"] ELSE sl,
          bookings |-> [bk EXCEPT ![s] = "confirmed"],
          outcome |-> "200"]

BookingViewSet_cancel(sl, bk, s, u) ==
    IF ~BookingVisible(bk, s, u)
    THEN [slot |-> sl, bookings |-> bk, outcome |-> "404"]
    ELSE IF u # s /\ u # SlotProfessor
    THEN [slot |-> sl, bookings |-> bk, outcome |-> "403"]
    ELSE LET after == [bk EXCEPT ![s] = "cancelled"]
         IN [slot |-> IF ActiveBookings(after) = {}
                      THEN [sl EXCEPT !.status = "available"] ELSE sl,
             bookings |-> after,
             outcome |-> "200"]

BookingViewSet_complete(sl, bk, s, u) ==
    IF ~BookingVisible(bk, s, u)
    THEN [slot |-> sl, bookings |-> bk, outcome |-> "404"]
    ELSE IF u # SlotProfessor
    THEN [slot |-> sl, bookings |-> bk, outcome |-> "403"]
    ELSE [slot |-> [sl EXCEPT !.status = "completed"],
          bookings |-> [bk EXCEPT ![s] = "completed"],
          outcome |-> "200"]

ConsultationSlotViewSet_cancel(sl, bk, u) ==
    IF u # SlotProfessor
    THEN [slot |-> sl, bookings |-> bk, outcome |-> "403"]
    ELSE [slot |-> [sl EXCEPT !.status = "cancelled"],
          bookings |-> [s \in SlotStudents |->
                           IF bk[s] \in ActiveStatuses
                           THEN "cancelled" ELSE bk[s]],
          outcome |-> "200"]

LegacyFrame ==
    UNCHANGED <<now, con, profile, notice_setting, cancelRec, reschedRec,
                workers, consultations, profiles>>

ApplySlot(op, r) ==
    /\ slot' = r.slot
    /\ bookings' = r.bookings
    /\ resp' = Plain(op, r.outcome, "")
    /\ UNCHANGED creating
    /\ LegacyFrame

\* POST /bookings/ by student s, first half: the checks
Booking_create_check ==
    \E s \in SlotStudents :
        /\ creating[s] = "idle"
        /\ LET found == BookingSerializer_checks(slot, bookings, s)
           IN IF found = "ok"
              THEN /\ creating' = [creating EXCEPT ![s] = "checked"]
                   /\ resp' = Plain("booking_check", "ok", "")
              ELSE /\ UNCHANGED creating
                   /\ resp' = Plain("booking_create", "400", found)
        /\ UNCHANGED <<slot, bookings>>
        /\ LegacyFrame

\* POST /bookings/ by student s, second half: the insert
Booking_create_insert ==
    \E s \in SlotStudents :
        /\ creating[s] = "checked"
        /\ LET r == BookingSerializer_insert(bookings, s)
           IN /\ bookings' = r.bookings
              /\ resp' = Plain("booking_create", r.outcome, "")
        /\ creating' = [creating EXCEPT ![s] = "idle"]
        /\ UNCHANGED slot
        /\ LegacyFrame

Booking_confirm ==
    \E s \in SlotStudents, u \in SlotUsers :
        ApplySlot("booking_confirm", BookingViewSet_confirm(slot, bookings, s, u))

Booking_cancel ==
    \E s \in SlotStudents, u \in SlotUsers :
        ApplySlot("booking_cancel", BookingViewSet_cancel(slot, bookings, s, u))

Booking_complete ==
    \E s \in SlotStudents, u \in SlotUsers :
        ApplySlot("booking_complete", BookingViewSet_complete(slot, bookings, s, u))

Slot_cancel ==
    \E u \in SlotUsers :
        ApplySlot("slot_cancel", ConsultationSlotViewSet_cancel(slot, bookings, u))

InitLegacy ==
    /\ Booked
    /\ con = NewConsultation(0, CHOOSE tm \in Times : TRUE,
                             CHOOSE dur \in Durations : TRUE)
    /\ notice_setting = DefaultNoticeHours
    /\ slot \in {NewSlot(n) : n \in 1..MaxSeats}

NextLegacy ==
    \/ Booking_create_check
    \/ Booking_create_insert
    \/ Booking_confirm
    \/ Booking_cancel
    \/ Booking_complete
    \/ Slot_cancel

SpecLegacy == InitLegacy /\ [][NextLegacy]_vars

\* ------------------------------------------------------------------------
\* Properties
\* ------------------------------------------------------------------------
TerminalStatuses == {"CANCELLED", "COMPLETED", "NO_SHOW"}

\* the operations that carry out each transition of the lifecycle table
TransitionOps(kind) ==
    CASE kind = "confirm" ->
             {"model_confirm", "svc_confirm", "api_confirm", "prof_confirm"}
      [] kind = "cancel" ->
             {"model_cancel", "svc_cancel", "api_cancel", "prof_cancel"}
      [] kind = "complete" -> {"model_complete", "api_complete"}
      [] kind = "mark_no_show" -> {"model_no_show", "api_no_show"}
      [] kind = "propose_reschedule" ->
             {"svc_propose", "api_reschedule", "prof_reschedule"}
      [] kind = "accept_reschedule" -> {"svc_accept", "student_accept"}
      [] kind = "reject_reschedule" -> {"student_reject"}
      [] kind = "rate" -> {"api_rate", "front_rate"}

\* the From states of the lifecycle table
FromStates(kind) ==
    CASE kind = "confirm" -> {"PENDING"}
      [] kind = "cancel" -> {"PENDING", "CONFIRMED"}
      [] kind = "complete" -> {"CONFIRMED"}
      [] kind = "mark_no_show" -> {"CONFIRMED"}
      [] kind = "propose_reschedule" -> {"CONFIRMED"}
      [] kind = "accept_reschedule" -> {"RESCHEDULE_PROPOSED"}
      [] kind = "reject_reschedule" -> {"RESCHEDULE_PROPOSED"}
      [] kind = "rate" -> {"COMPLETED"}

TransitionKinds ==
    {"confirm", "cancel", "complete", "mark_no_show", "propose_reschedule",
     "accept_reschedule", "reject_reschedule", "rate"}

\* the caller is told the transition is not legal: HTTP 400 or a False return
ToldInvalid(r) == r.outcome \in {"400", "False"}

\* C1: in every reachable state a consultation whose rating is non-null has
\* status completed.
C1_RatedOnlyWhenCompleted ==
    con.rating # NoRating => con.status = "COMPLETED"

\* C2: a transition action attempted on a consultation whose status is not
\* a From state of that action is refused as an invalid transition and
\* leaves every field of the consultation unchanged.
C2_InvalidTransitionRefused ==
    [][\A kind \in TransitionKinds :
          (resp'.op \in TransitionOps(kind) /\ con.status \notin FromStates(kind))
              => (con' = con /\ ToldInvalid(resp'))]_vars

\* C3: once the status is cancelled, completed or no_show, no operation
\* changes it again.
C3_TerminalStatusStays ==
    [][con.status \in TerminalStatuses => con'.status = con.status]_vars

RaceDone == \A w \in Workers : workers[w].pc = "done"

\* C4: of two confirm requests running concurrently on a pending
\* consultation exactly one succeeds and the other is refused; confirmed_at
\* is assigned, a calendar event created and the notification sent once.
C4_ConcurrentConfirmOnce ==
    (RaceDone /\ \A w \in Workers : workers[w].op = "confirm")
        => /\ Cardinality({w \in Workers : workers[w].outcome = "200"}) = 1
           /\ Cardinality({w \in Workers : workers[w].outcome = "400"}) = 1
           /\ Cardinality({w \in Workers : workers[w].saved}) = 1
           /\ Cardinality({w \in Workers : workers[w].calendar # "not_called"}) = 1
           /\ Cardinality({w \in Workers : workers[w].notify # "not_called"}) = 1

\* C5: of a confirm and a cancel running concurrently on a pending
\* consultation exactly one takes effect, the other is refused, and the
\* final row is either confirmed with cancelled_at and the reason null or
\* cancelled with both set: no write carries stale values over the winner's.
C5_ConfirmCancelExactlyOne ==
    (/\ RaceDone
     /\ {workers[w].op : w \in Workers} = {"confirm", "cancel"}
     /\ \A w \in Workers : workers[w].seen = "PENDING"
     /\ \A w \in Workers : workers[w].notify = "sent")
        => /\ Cardinality({w \in Workers : workers[w].outcome = "200"}) = 1
           /\ Cardinality({w \in Workers : workers[w].outcome = "400"}) = 1
           /\ \/ /\ con.status = "CONFIRMED"
                 /\ con.cancelled_at = NoTime
                 /\ con.cancellation_reason = None
              \/ /\ con.status = "CANCELLED"
                 /\ con.cancelled_at # NoTime
                 /\ con.cancellation_reason # None

\* C6: when the calendar collaborator fails, confirm_consultation,
\* cancel_consultation and accept_reschedule keep the new status and its
\* timestamp persisted and return normally to the caller.
C6_CalendarFailureIsolated ==
    (resp.op \in {"svc_confirm", "svc_cancel", "svc_accept"}
        /\ resp.calendar \in {"raise", "none"})
        => /\ con.status = IF resp.op = "svc_cancel"
                           THEN "CANCELLED" ELSE "CONFIRMED"
           /\ IF resp.op = "svc_cancel"
              THEN con.cancelled_at = now
              ELSE con.confirmed_at = now
           /\ resp.notify = "sent" => resp.outcome = "returned"

C6_Witness ==
    /\ resp.op = "svc_confirm"
    /\ resp.calendar = "raise"
    /\ resp.notify = "sent"
    /\ resp.outcome = "returned"
    /\ con.status = "CONFIRMED"
    /\ con.google_calendar_event_id = None

\* C7: when the notifier fails during confirm_consultation,
\* cancel_consultation, propose_reschedule or accept_reschedule, the error
\* is swallowed and the service still returns normally.
C7_NotifierFailureSwallowed ==
    (resp.op \in {"svc_confirm", "svc_cancel", "svc_propose", "svc_accept"}
        /\ resp.notify = "raise")
        => resp.outcome = "returned"

\* C8: a confirmed consultation scheduled H hours from now, for a professor
\* with cancellation notice N, can be cancelled exactly when H > N.
C8_CancellableIffBeyondNotice ==
    con.status = "CONFIRMED"
        => (can_be_cancelled(con, profile, notice_setting, now)
               <=> get_datetime(con) - now > notice_setting)

\* C9: a cancel on a pending consultation always succeeds, whatever the
\* time left before the scheduled instant, and leaves it cancelled with
\* cancelled_at set.
C9_PendingCancelAlwaysSucceeds ==
    [][(resp'.op \in {"model_cancel", "api_cancel"} /\ con.status = "PENDING")
          => /\ con'.status = "CANCELLED"
             /\ con'.cancelled_at # NoTime
             /\ ~ToldInvalid(resp')]_vars

\* what the same cancel operation answers for a status that is not cancellable
StatusRefusal(op) ==
    LET c == [con EXCEPT !.status = "COMPLETED"]
    IN IF op = "api_cancel"
       THEN ViewSet_cancel(c, profile, notice_setting, now, "", "none", "sent").resp
       ELSE Returned("model_cancel",
                     Consultation_cancel(c, profile, notice_setting, now, "")).resp

\* C10: a cancel of a confirmed consultation after its deadline is refused
\* with an outcome the caller can tell apart from the refusal for a
\* non-cancellable status.
C10_DeadlineRefusalDistinct ==
    (resp.op \in {"model_cancel", "api_cancel"}
        /\ ToldInvalid(resp)
        /\ con.status = "CONFIRMED")
        => resp # StatusRefusal(resp.op)

RateOps == {"api_rate", "front_rate"}

\* C11: a rate action changes the consultation only when it is completed
\* and its rating is null; once the rating is set, no later rate action
\* (API or frontend rating view) changes the rating or the feedback.
C11_RateOnce ==
    [][resp'.op \in RateOps =>
         /\ (con' # con => con.status = "COMPLETED" /\ con.rating = NoRating)
         /\ (con.rating # NoRating =>
                con'.rating = con.rating /\ con'.feedback = con.feedback)]_vars

RescheduleOps == {"api_reschedule", "prof_reschedule", "svc_propose"}

\* C12: a reschedule proposal takes effect only when can_be_rescheduled()
\* holds (status confirmed, now strictly before the scheduled time minus the
\* notice hours); otherwise the consultation's status, scheduled_date and
\* scheduled_time stay unchanged.
C12_RescheduleOnlyWhenAllowed ==
    [][(/\ resp'.op \in RescheduleOps
        /\ ~can_be_rescheduled(con, profile, notice_setting, now))
       => /\ con'.status = con.status
          /\ con'.scheduled_date = con.scheduled_date
          /\ con'.scheduled_time = con.scheduled_time]_vars

ProcessedStatuses == {"APPROVED", "REJECTED"}
CancellationRecordOps == {"cancelrec_approve", "cancelrec_reject"}
RescheduleRequestOps == {"reschedreq_approve", "reschedreq_reject"}

\* C14: a CancellationRecord or RescheduleRequest is processed exactly
\* once: an approve or reject on a record already approved or rejected
\* changes neither the record nor the target consultation.
C14_ProcessedOnce ==
    [][/\ (resp'.op \in CancellationRecordOps
           /\ cancelRec.status \in ProcessedStatuses)
          => (cancelRec' = cancelRec /\ con' = con)
       /\ (resp'.op \in RescheduleRequestOps
           /\ reschedRec.status \in ProcessedStatuses)
          => (reschedRec' = reschedRec /\ con' = con)]_vars

\* C15: after approve on a CancellationRecord the record's status matches
\* the real outcome: approved exactly when that call cancelled the
\* consultation (status cancelled, cancelled_at set); when the cancel was
\* refused the record is rejected and the consultation is unchanged; in
\* both cases processed_at is set.
C15_ApproveReflectsOutcome ==
    [][resp'.op = "cancelrec_approve" =>
         /\ cancelRec'.status \in ProcessedStatuses
         /\ cancelRec'.status = "APPROVED" <=>
                (/\ con.status # "CANCELLED"
                 /\ con'.status = "CANCELLED"
                 /\ con'.cancelled_at = now)
         /\ cancelRec'.status = "REJECTED" => con' = con
         /\ cancelRec'.processed_at = now
         /\ cancelRec'.processed_at # NoTime]_vars

\* an approve that cancelled the consultation with the record's reason
C15_Witness ==
    /\ resp.op = "cancelrec_approve"
    /\ resp.outcome = "True"
    /\ cancelRec.status = "APPROVED"
    /\ cancelRec.processed_at = now
    /\ con.status = "CANCELLED"
    /\ con.cancelled_at = now
    /\ con.cancellation_reason = cancelRec.reason
    /\ cancelRec.reason # None

\* C16: reject on a CancellationRecord or a RescheduleRequest marks the
\* record rejected and leaves every field of the target consultation
\* unchanged.
C16_RejectLeavesConsultation ==
    [][/\ resp'.op = "cancelrec_reject"
          => (cancelRec'.status = "REJECTED" /\ con' = con)
       /\ resp'.op = "reschedreq_reject"
          => (reschedRec'.status = "REJECTED" /\ con' = con)]_vars

\* both kinds of record rejected, the last by reject() itself, on a
\* consultation that is still confirmed
C16_Witness ==
    /\ resp.op = "reschedreq_reject"
    /\ reschedRec.status = "REJECTED"
    /\ reschedRec.processed_at = now
    /\ cancelRec.status = "REJECTED"
    /\ cancelRec.admin_note = "seen"
    /\ con.status = "CONFIRMED"
    /\ con.cancelled_at = NoTime

\* the professor's consultations that carry a rating
OwnRated(p) ==
    {i \in ConsIds : /\ consultations[i].exists
                     /\ ProfessorOf(i) = p
                     /\ consultations[i].row.rating \in MinRating..MaxRating}

\* total_reviews is the number of rated consultations and average_rating
\* (hundredths) is their mean to the nearest hundredth, 0 when there are none
CacheMatches(p) ==
    LET n == Cardinality(OwnRated(p))
        sum == SumRatings(consultations, OwnRated(p))
        avg == profiles[p].average_rating
    IN /\ profiles[p].total_reviews = n
       /\ n = 0 => avg = 0
       /\ n > 0 => /\ 2 * (avg * n - 100 * sum) <= n
                   /\ 2 * (100 * sum - avg * n) <= n

OwnRatings(p) == {consultations[i].row.rating : i \in OwnRated(p)}

\* C17: the rating aggregator sets total_reviews to the number of the
\* professor's consultations with non-null rating and average_rating to the
\* mean of those ratings (0 when there are none); ratings [5,4,3] give
\* average 4.00 and total_reviews 3; consultations of other professors or
\* with null rating do not contribute.
C17_AggregatorComputesMean ==
    resp.op = "calculate_ratings" =>
        /\ CacheMatches(resp.professor)
        /\ (Cardinality(OwnRated(resp.professor)) = 3
            /\ OwnRatings(resp.professor) = {3, 4, 5})
           => /\ profiles[resp.professor].average_rating = 400
              /\ profiles[resp.professor].total_reviews = 3

\* the aggregator run for ratings [5,4,3] while the other professor has a
\* rated consultation of their own
C17_Witness ==
    /\ resp.op = "calculate_ratings"
    /\ resp.professor = "p1"
    /\ Cardinality(OwnRated("p1")) = 3
    /\ OwnRatings("p1") = {3, 4, 5}
    /\ OwnRated("p2") # {}
    /\ profiles["p1"].average_rating = 400
    /\ profiles["p1"].total_reviews = 3

\* C18: running the aggregator twice for the same professor with no rating
\* change in between gives the same average_rating and total_reviews as
\* running it once.
C18_AggregatorIdempotent ==
    [][(resp'.op = "calculate_ratings" /\ resp'.again)
       => profiles' = profiles]_vars

\* a second run in a row, on a professor whose mean is not a whole number
C18_Witness ==
    /\ resp.op = "calculate_ratings"
    /\ resp.again
    /\ profiles[resp.professor].total_reviews = 2
    /\ profiles[resp.professor].average_rating = 450

\* C19: the cache is never stale between operations: every professor's
\* cached total_reviews and average_rating equal the count and the mean of
\* that professor's rated consultations after every operation that sets or
\* changes a rating or deletes a rated consultation.
C19_CacheNeverStale ==
    \A p \in Professors : profiles[p].exists => CacheMatches(p)

ProfessorOnlyOps ==
    {"api_confirm", "api_complete", "api_no_show", "api_reschedule",
     "prof_confirm", "prof_reschedule"}
StudentOnlyOps == {"api_rate", "front_rate", "student_accept", "student_reject"}
EitherPartyOps == {"api_cancel", "prof_cancel"}

\* C20: confirm, complete, mark_no_show and propose_reschedule change a
\* consultation only when the caller is its professor; accept_reschedule,
\* reject_reschedule and rate only when the caller is its student; cancel
\* only when the caller is one of the two; any other call leaves the
\* consultation unchanged.
C20_OnlyThePartiesAct ==
    [][con' # con =>
         /\ resp'.op \in ProfessorOnlyOps => resp'.caller = TheProfessor
         /\ resp'.op \in StudentOnlyOps => resp'.caller = TheStudent
         /\ resp'.op \in EitherPartyOps
                => resp'.caller \in {TheStudent, TheProfessor}]_vars

ConfirmOps == {"model_confirm", "api_confirm", "svc_confirm", "prof_confirm"}

\* C21: confirm on a pending consultation succeeds: the status becomes
\* confirmed and confirmed_at non-null, while cancelled_at,
\* cancellation_reason, rating and the schedule are unchanged; the model
\* method returns True and the API answers 200.
C21_ConfirmPending ==
    [][(resp'.op \in ConfirmOps /\ con.status = "PENDING") =>
         /\ con'.status = "CONFIRMED"
         /\ con'.confirmed_at = now
         /\ con'.confirmed_at # NoTime
         /\ con'.cancelled_at = con.cancelled_at
         /\ con'.cancellation_reason = con.cancellation_reason
         /\ con'.rating = con.rating
         /\ con'.feedback = con.feedback
         /\ con'.scheduled_date = con.scheduled_date
         /\ con'.scheduled_time = con.scheduled_time
         /\ con'.duration = con.duration
         /\ resp'.op = "model_confirm" => resp'.outcome = "True"
         /\ resp'.op = "api_confirm" => resp'.outcome = "200"]_vars

\* the API has just confirmed a consultation booked for the later date
C21_Witness ==
    /\ resp.op = "api_confirm"
    /\ resp.outcome = "200"
    /\ con.status = "CONFIRMED"
    /\ con.confirmed_at = now
    /\ now > 0
    /\ con.cancelled_at = NoTime
    /\ con.rating = NoRating
    /\ con.scheduled_date = 1

\* C22: the API reschedule action on a confirmed consultation is atomic:
\* the status it persists is confirmed or reschedule_proposed, never
\* pending, and when the action fails the consultation keeps its
\* pre-request status and schedule.
C22_RescheduleAtomic ==
    [][(resp'.op = "api_reschedule" /\ con.status = "CONFIRMED") =>
         /\ con'.status \in {"CONFIRMED", "RESCHEDULE_PROPOSED"}
         /\ resp'.outcome # "200" =>
                /\ con'.status = con.status
                /\ con'.scheduled_date = con.scheduled_date
                /\ con'.scheduled_time = con.scheduled_time
                /\ con'.duration = con.duration]_vars

C25_TimestampsSetOnce ==
    [][/\ con.confirmed_at # NoTime => con'.confirmed_at = con.confirmed_at
       /\ con.cancelled_at # NoTime => con'.cancelled_at = con.cancelled_at]_vars

\* C26: approving a RescheduleRequest sets the consultation's
\* scheduled_date and scheduled_time to the record's new_date and new_time,
\* its duration to new_duration when one is given (otherwise unchanged) and
\* its status to rescheduled, and marks the record approved with
\* processed_at set.
C26_ApproveReschedules ==
    [][resp'.op = "reschedreq_approve" =>
         /\ con'.scheduled_date = reschedRec.new_date
         /\ con'.scheduled_time = reschedRec.new_time
         /\ con'.duration = IF reschedRec.new_duration # NoValue
                            THEN reschedRec.new_duration
                            ELSE con.duration
         /\ con'.status = "RESCHEDULED"
         /\ reschedRec'.status = "APPROVED"
         /\ reschedRec'.processed_at = now
         /\ reschedRec'.processed_at # NoTime]_vars

\* an approved request that carried a new date, time and duration
C26_Witness ==
    /\ resp.op = "reschedreq_approve"
    /\ reschedRec.status = "APPROVED"
    /\ reschedRec.processed_at = now
    /\ reschedRec.new_duration # NoValue
    /\ con.status = "RESCHEDULED"
    /\ con.scheduled_date = reschedRec.new_date
    /\ con.scheduled_time = reschedRec.new_time
    /\ con.scheduled_time \notin Times
    /\ con.duration = reschedRec.new_duration
    /\ con.duration \notin Durations

GuardedModelOps ==
    {"model_confirm", "model_cancel", "model_complete", "model_no_show"}

\* C28: a consultation whose status is RESCHEDULED is refused by every
\* guarded model transition: confirm(), cancel(), complete() and
\* mark_no_show() return False and leave it unchanged, and can_be_cancelled(),
\* can_be_rescheduled() and can_be_rated() are false, so these methods never
\* take it to a terminal state.
C28_RescheduledIsStuck ==
    [][con.status = "RESCHEDULED" =>
         /\ ~can_be_cancelled(con, profile, notice_setting, now)
         /\ ~can_be_rescheduled(con, profile, notice_setting, now)
         /\ ~can_be_rated(con)
         /\ resp'.op \in GuardedModelOps =>
               /\ resp'.outcome = "False"
               /\ con' = con
               /\ con'.status \notin TerminalStatuses]_vars

C28_Witness ==
    /\ resp.op = "model_cancel"
    /\ resp.outcome = "False"
    /\ con.status = "RESCHEDULED"
    /\ reschedRec.status = "APPROVED"
    /\ check_cancellation_deadline(con, profile, notice_setting, now)

BookingOps == {"booking_confirm", "booking_cancel", "booking_complete"}

\* C29: for the slot, the number of its bookings in status pending or
\* confirmed never exceeds max_students, after any sequence of booking
\* create, confirm, cancel and complete operations, two students creating
\* bookings concurrently included.
C29_NeverOverbooked ==
    Cardinality(ActiveBookings(bookings)) <= slot.max_students

\* C30: once the slot's status is cancelled or completed, no confirm, cancel
\* or complete of one of its bookings changes the slot's status back to
\* available or booked.
C30_ClosedSlotStaysClosed ==
    [][(slot.status \in {"cancelled", "completed"} /\ resp'.op \in BookingOps)
         => slot'.status \notin {"available", "booked"}]_vars

====
